---- MODULE Spec2Model ----
(***************************************************************************)
(* Model of py_menu.py: the InstallerMenu session (navigation state        *)
(* machine, filter, multi-select, execution coordinator).                   *)
(*                                                                          *)
(* Strings are sequences of character codes (ord values), so that          *)
(* str.lower(), substring containment and sorting are computed, and key    *)
(* codes are the integers getch() yields.  Python indices are 0-based;     *)
(* item i of a list is element i+1 of the sequence modelling it.           *)
(***************************************************************************)
EXTENDS Integers, Sequences, FiniteSets, TLC

VARIABLES
    installers,     \* self.installers, built once by discover_installers
    categories,     \* self.categories, built once by organize_by_category
    menu,           \* the mutable fields of the InstallerMenu object
    key,            \* the local `key` of run(): the last key code read
    height,         \* the height getmaxyx() gave the last draw_menu
    pc,             \* position of the session: getch, single, ack_single,
                    \*   batch, ack_batch, done
    surface,        \* "curses" while the curses screen is up, "ended" after endwin()
    paths,          \* installer_paths of the running launch
    i,              \* number of scripts launched so far by the running launch
    results,        \* what each subprocess.run of the running launch was given
                    \*   and how it ended: exit 0, non-zero exit, interrupted
    success,        \* local `success` of run_installer
    success_count,  \* local of run_batch_installers
    failed_count    \* local of run_batch_installers

vars == <<installers, categories, menu, key, height, pc, surface, paths, i,
          results, success, success_count, failed_count>>

catalogVars == <<installers, categories>>

execVars == <<surface, paths, i, results, success, success_count, failed_count>>

----------------------------------------------------------------------------
(* Bounds of the model *)

MaxTerm == 2        \* longest search term typed
MinHeight == 11     \* smallest terminal height
MaxHeight == 12     \* largest terminal height

Heights == MinHeight..MaxHeight

----------------------------------------------------------------------------
(* Key codes *)

KEY_DOWN == 258
KEY_UP == 259
KEY_LEFT == 260
KEY_RIGHT == 261
KEY_BACKSPACE == 263
KEY_ENTER == 343
KEY_ESC == 27
ord_newline == 10
ord_space == 32
ord_slash == 47
ord_q == 113
ord_Q == 81
ord_a == 97
ord_A == 65
ord_m == 109
ord_M == 77
ord_h == 104
ord_H == 72
ord_b == 98
ord_B == 66
NoKey == 0

\* the key events the terminal delivers in the model
Keys == {ord_q, KEY_DOWN, KEY_UP, ord_newline, ord_space, ord_a, ord_m,
         KEY_LEFT, ord_slash, KEY_BACKSPACE, KEY_ESC, ord_b, ord_B,
         KEY_RIGHT}

----------------------------------------------------------------------------
(* Strings *)

Max(x, y) == IF x >= y THEN x ELSE y
Min(x, y) == IF x <= y THEN x ELSE y

\* str.lower() on one character and on a string
LowerChar(ch) == IF 65 <= ch /\ ch <= 90 THEN ch + 32 ELSE ch
Lower(s) == [n \in 1..Len(s) |-> LowerChar(s[n])]

\* Python's `needle in hay` for strings
Contains(hay, needle) ==
    \E k \in 0..(Len(hay) - Len(needle)) :
        \A n \in 1..Len(needle) : hay[k + n] = needle[n]

\* Python's `s < t` for strings (lexicographic by code point)
RECURSIVE StrLess(_, _)
StrLess(s, t) ==
    IF t = <<>> THEN FALSE
    ELSE IF s = <<>> THEN TRUE
    ELSE IF s[1] < t[1] THEN TRUE
    ELSE IF s[1] > t[1] THEN FALSE
    ELSE StrLess(Tail(s), Tail(t))

\* None, as the value of current_category (not a string a header can give)
None == <<0>>

str_Dev == <<68, 101, 118>>
str_Net == <<78, 101, 116>>
str_a == <<97>>
str_b == <<98>>
str_c == <<99>>
str_empty == <<>>

----------------------------------------------------------------------------
(* Catalog index *)

\* the directories the session may be started on: each file is given by what
\* discover_installers reads from it (stem without "setup_", the two headers)
File(n, d, c) == [name |-> n, description |-> d, category |-> c, path |-> n]

DirEmpty == {}
DirDevNet == { File(str_b, <<120>>, str_Dev),
               File(str_c, <<66>>, str_Net),
               File(str_a, <<88>>, str_Dev) }
DirBlankCategory == { File(str_b, <<120>>, str_empty),
                      File(str_c, <<66>>, str_Net) }

Directories == {DirEmpty, DirDevNet, DirBlankCategory}

\* sorted(glob(...)): the files in ascending order of path, i.e. of stem
RECURSIVE discover_installers(_)
discover_installers(dir) ==
    IF dir = {} THEN <<>>
    ELSE LET first == CHOOSE f \in dir :
                          \A g \in dir \ {f} : StrLess(f.path, g.path)
         IN <<first>> \o discover_installers(dir \ {first})

\* list.sort(key=name): stable insertion by name
RECURSIVE SortByName(_)
SortByName(seq) ==
    IF seq = <<>> THEN <<>>
    ELSE LET rest == SortByName(Tail(seq))
             x == seq[1]
             before == SelectSeq(rest, LAMBDA y : StrLess(y.name, x.name))
             after == SelectSeq(rest, LAMBDA y : ~StrLess(y.name, x.name))
         IN before \o <<x>> \o after

RECURSIVE SortNames(_)
SortNames(S) ==
    IF S = {} THEN <<>>
    ELSE LET first == CHOOSE s \in S : \A t \in S \ {s} : StrLess(s, t)
         IN <<first>> \o SortNames(S \ {first})

\* self.categories: the ordered dict, as a sequence of (name, installers) pairs
organize_by_category(insts) ==
    LET names == SortNames({insts[n].category : n \in 1..Len(insts)})
    IN [n \in 1..Len(names) |->
            [name |-> names[n],
             installers |-> SortByName(SelectSeq(insts,
                                LAMBDA e : e.category = names[n]))]]

\* `cat in self.categories`
InCategories(cat) == \E n \in 1..Len(categories) : categories[n].name = cat

\* self.categories.get(cat, [])
CategoriesGet(cat) ==
    IF InCategories(cat)
    THEN (CHOOSE p \in {categories[n] : n \in 1..Len(categories)} :
              p.name = cat).installers
    ELSE <<>>

\* the entries of all categories, in the order of self.categories.values()
RECURSIVE ConcatInstallers(_)
ConcatInstallers(cats) ==
    IF cats = <<>> THEN <<>>
    ELSE cats[1].installers \o ConcatInstallers(Tail(cats))

----------------------------------------------------------------------------
(* InstallerMenu methods, as functions of the object's fields *)

\* truthiness of a str-or-None value
Truthy(s) == s # None /\ s # <<>>

NonSearchView(self) ==
    IF self.current_category = None THEN "main" ELSE "category"

get_current_items(self) ==
    IF self.current_view = "search" THEN self.filtered_items
    ELSE IF self.current_view = "category"
        THEN CategoriesGet(self.current_category)
    ELSE IF self.current_view = "multiselect" THEN self.multiselect_items
    ELSE [n \in 1..Len(categories) |->
            [type |-> "category",
             name |-> categories[n].name,
             description |-> Len(categories[n].installers),
             installers |-> categories[n].installers]]

Matches(term, item) ==
    \/ Contains(Lower(item.name), Lower(term))
    \/ Contains(Lower(item.description), Lower(term))

\* filter_items that shows every item of the scope for an empty term
filter_items_show_all(self) ==
    LET items_to_search ==
            IF Truthy(self.current_category)
               /\ InCategories(self.current_category)
            THEN CategoriesGet(self.current_category)
            ELSE installers
        found == IF self.search_term = <<>> THEN items_to_search
                 ELSE SelectSeq(items_to_search,
                                LAMBDA item : Matches(self.search_term, item))
    IN [self EXCEPT
           !.current_view = "search",
           !.filtered_items =
               [n \in 1..Len(found) |-> found[n] @@ [type |-> "installer"]]]

filter_items(self) ==
    IF self.search_term = <<>>
    THEN [self EXCEPT !.filtered_items = <<>>,
                      !.current_view = NonSearchView(self)]
    ELSE LET items_to_search ==
                 IF Truthy(self.current_category)
                    /\ InCategories(self.current_category)
                 THEN CategoriesGet(self.current_category)
                 ELSE installers
             found == SelectSeq(items_to_search,
                                LAMBDA item : Matches(self.search_term, item))
         IN [self EXCEPT
                !.current_view = "search",
                !.filtered_items =
                    [n \in 1..Len(found) |-> found[n] @@ [type |-> "installer"]]]

enter_multiselect_mode(self) ==
    LET s1 == [self EXCEPT !.multiselect_mode = TRUE,
                           !.current_view = "multiselect",
                           !.selected_items = {}]
        items == IF s1.search_term # <<>> /\ s1.current_view = "search"
                     THEN s1.filtered_items
                 ELSE IF Truthy(s1.current_category)
                     THEN CategoriesGet(s1.current_category)
                 ELSE ConcatInstallers(categories)
    IN [s1 EXCEPT !.multiselect_items = items, !.selected = 0, !.offset = 0]

toggle_selection(self, idx) ==
    IF idx \in self.selected_items
    THEN [self EXCEPT !.selected_items = @ \ {idx}]
    ELSE [self EXCEPT !.selected_items = @ \cup {idx}]

\* select_all_items that re-collects the candidates from the whole catalog
select_all_items_recollect(self) ==
    IF self.current_view = "multiselect"
    THEN [self EXCEPT !.multiselect_items = installers,
                      !.selected_items = 0..(Len(installers) - 1)]
    ELSE self

select_all_items(self) ==
    IF self.current_view = "multiselect"
    THEN [self EXCEPT !.selected_items = 0..(Len(get_current_items(self)) - 1)]
    ELSE self

\* navigate_back that leaves current_category set when it returns to main
navigate_back_keeps_category(self) ==
    IF self.current_view = "search"
    THEN [self EXCEPT !.search_term = <<>>,
                      !.current_view = NonSearchView(self),
                      !.filtered_items = <<>>]
    ELSE IF self.current_view = "category"
    THEN [self EXCEPT !.current_view = "main"]
    ELSE IF self.current_view = "multiselect"
    THEN [self EXCEPT !.current_view = NonSearchView(self),
                      !.multiselect_mode = FALSE,
                      !.selected_items = {},
                      !.multiselect_items = <<>>]
    ELSE self

navigate_back(self) ==
    IF self.current_view = "search"
    THEN [self EXCEPT !.search_term = <<>>,
                      !.current_view = NonSearchView(self),
                      !.filtered_items = <<>>]
    ELSE IF self.current_view = "category"
    THEN [self EXCEPT !.current_view = "main", !.current_category = None]
    ELSE IF self.current_view = "multiselect"
    THEN [self EXCEPT !.current_view = NonSearchView(self),
                      !.multiselect_mode = FALSE,
                      !.selected_items = {},
                      !.multiselect_items = <<>>]
    ELSE self

\* rows draw_menu has for items on a terminal of height h
SearchRow(view) == IF view # "main" THEN 4 ELSE 2
MaxVisible(view, h) == h - (SearchRow(view) + 7)

\* draw_menu with the scroll-down offset one row short
draw_menu_off_by_one(self, h) ==
    LET max_visible == MaxVisible(self.current_view, h)
        n == Len(get_current_items(self))
        sel == IF self.selected >= n THEN Max(0, n - 1) ELSE self.selected
        off1 == IF self.offset >= n THEN Max(0, n - 1) ELSE self.offset
        off2 == IF sel < off1 THEN sel
                ELSE IF sel >= off1 + max_visible THEN sel - max_visible
                ELSE off1
    IN IF max_visible <= 0 THEN self
       ELSE [self EXCEPT !.selected = sel, !.offset = off2]

draw_menu(self, h) ==
    LET max_visible == MaxVisible(self.current_view, h)
        n == Len(get_current_items(self))
        sel == IF self.selected >= n THEN Max(0, n - 1) ELSE self.selected
        off1 == IF self.offset >= n THEN Max(0, n - 1) ELSE self.offset
        off2 == IF sel < off1 THEN sel
                ELSE IF sel >= off1 + max_visible THEN sel - max_visible + 1
                ELSE off1
    IN IF max_visible <= 0 THEN self
       ELSE [self EXCEPT !.selected = sel, !.offset = off2]

----------------------------------------------------------------------------
(* The key loop of run() *)

\* the if/elif chain with the printable branch tested first
Dispatch_printable_first(k) ==
    IF 32 <= k /\ k <= 126 THEN "printable"
    ELSE IF k = KEY_DOWN THEN "down"
    ELSE IF k = KEY_UP THEN "up"
    ELSE IF k = ord_newline \/ k = KEY_ENTER THEN "enter"
    ELSE IF k = KEY_LEFT THEN "back"
    ELSE IF k \in {KEY_BACKSPACE, 127, 8} THEN "backspace"
    ELSE IF k = KEY_ESC THEN "escape"
    ELSE "none"

\* the branch of the if/elif chain a key code takes
Dispatch(k) ==
    IF k = ord_q \/ k = ord_Q THEN "quit"
    ELSE IF k = KEY_DOWN THEN "down"
    ELSE IF k = KEY_UP THEN "up"
    ELSE IF k = ord_newline \/ k = KEY_ENTER THEN "enter"
    ELSE IF k = ord_space THEN "space"
    ELSE IF k = ord_a \/ k = ord_A THEN "select_all"
    ELSE IF k = ord_m \/ k = ord_M THEN "multiselect"
    ELSE IF k = KEY_LEFT \/ k = ord_h \/ k = ord_H THEN "back"
    ELSE IF k = ord_slash THEN "search"
    ELSE IF k \in {KEY_BACKSPACE, 127, 8} THEN "backspace"
    ELSE IF k = KEY_ESC THEN "escape"
    ELSE IF 32 <= k /\ k <= 126 THEN "printable"
    ELSE "none"

\* the 'm' branch without the test of the search term in the main view
MultiselectAllowed_any_main(self) ==
    self.current_view \in {"category", "search", "main"}

\* condition of the 'm' branch
MultiselectAllowed(self) ==
    \/ self.current_view \in {"category", "search"}
    \/ (self.current_view = "main" /\ self.search_term = <<>>)

InitMenu ==
    [current_view |-> "main",
     selected |-> 0,
     offset |-> 0,
     search_term |-> <<>>,
     filtered_items |-> <<>>,
     current_category |-> None,
     multiselect_mode |-> FALSE,
     selected_items |-> {},
     multiselect_items |-> <<>>]

\* after construction and the first draw_menu
Init ==
    /\ \E dir \in Directories : installers = discover_installers(dir)
    /\ categories = organize_by_category(installers)
    /\ menu = InitMenu
    /\ key = NoKey
    /\ height \in Heights
    /\ pc = "getch"
    /\ surface = "curses"
    /\ paths = <<>>
    /\ i = 0
    /\ results = <<>>
    /\ success = FALSE
    /\ success_count = 0
    /\ failed_count = 0

\* one turn of the loop after getch() returned k: the handler `after`, then
\* the draw_menu at the top of the next iteration
Turn(k, after) ==
    /\ key' = k
    /\ \E h \in Heights :
        /\ height' = h
        /\ menu' = draw_menu(after, h)
    /\ pc' = "getch"
    /\ UNCHANGED <<catalogVars, execVars>>

QuitKey ==
    /\ pc = "getch"
    /\ \E k \in Keys :
        /\ Dispatch(k) = "quit"
        /\ key' = k
    /\ pc' = "done"
    /\ UNCHANGED <<catalogVars, menu, height, execVars>>

DownKey ==
    /\ pc = "getch"
    /\ \E k \in Keys :
        /\ Dispatch(k) = "down"
        /\ LET n == Len(get_current_items(menu))
           IN Turn(k, IF n > 0
                      THEN [menu EXCEPT !.selected = Min(@ + 1, n - 1)]
                      ELSE menu)

UpKey ==
    /\ pc = "getch"
    /\ \E k \in Keys :
        /\ Dispatch(k) = "up"
        /\ Turn(k, IF Len(get_current_items(menu)) > 0
                   THEN [menu EXCEPT !.selected = Max(@ - 1, 0)]
                   ELSE menu)

\* sorted iteration of a set of small ints (the order `for idx in set` gives)
RECURSIVE SetToSeq(_)
SetToSeq(S) ==
    IF S = {} THEN <<>>
    ELSE LET m == CHOOSE x \in S : \A y \in S : x <= y
         IN <<m>> \o SetToSeq(S \ {m})

\* selected_paths built by the Enter branch in multiselect view
SelectedPaths(self) ==
    LET idxs == SelectSeq(SetToSeq(self.selected_items),
                          LAMBDA idx : idx < Len(self.multiselect_items))
    IN [n \in 1..Len(idxs) |-> self.multiselect_items[idxs[n] + 1].path]

\* `if items and self.selected < len(items)` of the Enter branch
EnterHasItem(self) ==
    /\ Len(get_current_items(self)) > 0
    /\ self.selected < Len(get_current_items(self))

EnterItem(self) == get_current_items(self)[self.selected + 1]

IsCategoryRow(item) == "type" \in DOMAIN item /\ item.type = "category"
IsInstallerRow(item) ==
    \/ ("type" \in DOMAIN item /\ item.type = "installer")
    \/ "path" \in DOMAIN item

\* which arm of the Enter branch runs
EnterArm(self) ==
    IF ~EnterHasItem(self) THEN "none"
    ELSE IF self.current_view = "multiselect"
        THEN IF self.selected_items # {} /\ SelectedPaths(self) # <<>>
             THEN "batch" ELSE "none"
    ELSE IF self.current_view = "main" /\ IsCategoryRow(EnterItem(self))
        THEN "category"
    ELSE IF IsInstallerRow(EnterItem(self)) /\ EnterItem(self).path # <<>>
        THEN "installer"
    ELSE "none"

\* Enter on a category row of the main view
EnterCategory ==
    /\ pc = "getch"
    /\ EnterArm(menu) = "category"
    /\ \E k \in Keys :
        /\ Dispatch(k) = "enter"
        /\ Turn(k, [menu EXCEPT !.current_view = "category",
                                !.current_category = EnterItem(menu).name,
                                !.selected = 0,
                                !.offset = 0])

\* Enter where no arm applies
EnterNothing ==
    /\ pc = "getch"
    /\ EnterArm(menu) = "none"
    /\ \E k \in Keys :
        /\ Dispatch(k) = "enter"
        /\ Turn(k, menu)

\* a launch that does not call curses.endwin()
endwin_skipped(sfc) == sfc

\* curses.endwin() and curses.initscr(), as the state of the surface after them
endwin(sfc) == "ended"
initscr(sfc) == "curses"

\* Enter on an installer: run_installer up to curses.endwin()
EnterInstaller ==
    /\ pc = "getch"
    /\ EnterArm(menu) = "installer"
    /\ \E k \in Keys :
        /\ Dispatch(k) = "enter"
        /\ key' = k
    /\ pc' = "single"
    /\ surface' = endwin(surface)
    /\ paths' = <<EnterItem(menu).path>>
    /\ i' = 0
    /\ results' = <<>>
    /\ success' = FALSE
    /\ UNCHANGED <<catalogVars, menu, height, success_count, failed_count>>

\* how a subprocess.run call can end
Outcomes == {"ok", "fail", "interrupt"}

\* run_installer without the `except KeyboardInterrupt` clause
SingleAfterRun_uncaught(outcome) ==
    IF outcome = "interrupt" THEN "done" ELSE "ack_single"

\* where run_installer goes after subprocess.run: both exceptions are
\* caught, and input() follows
SingleAfterRun(outcome) == "ack_single"

\* subprocess.run in run_installer: exit 0, CalledProcessError, KeyboardInterrupt
RunSingle ==
    /\ pc = "single"
    /\ \E outcome \in Outcomes :
        /\ success' = (outcome = "ok")
        /\ results' = Append(results, [path |-> paths[1], outcome |-> outcome])
        /\ pc' = SingleAfterRun(outcome)
    /\ i' = 1
    /\ UNCHANGED <<catalogVars, menu, key, height, surface, paths,
                   success_count, failed_count>>

\* input() returns in run_installer; curses restarted; next draw_menu
AckSingle ==
    /\ pc = "ack_single"
    /\ surface' = initscr(surface)
    /\ paths' = <<>>
    /\ i' = 0
    /\ results' = <<>>
    /\ success' = FALSE
    /\ \E h \in Heights :
        /\ height' = h
        /\ menu' = draw_menu(menu, h)
    /\ pc' = "getch"
    /\ UNCHANGED <<catalogVars, key, success_count, failed_count>>

\* Enter in multiselect view with selected paths: run_batch_installers up to
\* curses.endwin()
EnterBatch ==
    /\ pc = "getch"
    /\ EnterArm(menu) = "batch"
    /\ \E k \in Keys :
        /\ Dispatch(k) = "enter"
        /\ key' = k
    /\ pc' = "batch"
    /\ surface' = endwin(surface)
    /\ paths' = SelectedPaths(menu)
    /\ i' = 0
    /\ results' = <<>>
    /\ success_count' = 0
    /\ failed_count' = 0
    /\ UNCHANGED <<catalogVars, menu, height, success>>

\* the counting of run_batch_installers with a cancelled item counted as failed
BatchCounts_cancel_fails(outcome, sc, fc) ==
    IF outcome = "ok" THEN <<sc + 1, fc>> ELSE <<sc, fc + 1>>

\* <<success_count, failed_count>> after one subprocess.run of the batch
BatchCounts(outcome, sc, fc) ==
    IF outcome = "ok" THEN <<sc + 1, fc>>
    ELSE IF outcome = "fail" THEN <<sc, fc + 1>>
    ELSE <<sc, fc>>

\* the for loop of run_batch_installers without the `break`
BatchAfterRun_no_break(outcome, done, total) ==
    IF done = total THEN "ack_batch" ELSE "batch"

\* where the for loop goes after item number `done` of `total`: on to the
\* summary after a KeyboardInterrupt (break) or the last item
BatchAfterRun(outcome, done, total) ==
    IF outcome = "interrupt" \/ done = total THEN "ack_batch" ELSE "batch"

\* one iteration of the for loop of run_batch_installers
RunBatchItem ==
    /\ pc = "batch"
    /\ i < Len(paths)
    /\ \E outcome \in Outcomes :
        /\ success_count' = BatchCounts(outcome, success_count, failed_count)[1]
        /\ failed_count' = BatchCounts(outcome, success_count, failed_count)[2]
        /\ results' = Append(results,
                             [path |-> paths[i + 1], outcome |-> outcome])
        /\ pc' = BatchAfterRun(outcome, i + 1, Len(paths))
    /\ i' = i + 1
    /\ UNCHANGED <<catalogVars, menu, key, height, surface, paths, success>>

\* input() returns after the summary; curses restarted; run() leaves
\* multiselect; next draw_menu
AckBatch ==
    /\ pc = "ack_batch"
    /\ surface' = initscr(surface)
    /\ paths' = <<>>
    /\ i' = 0
    /\ results' = <<>>
    /\ success_count' = 0
    /\ failed_count' = 0
    /\ \E h \in Heights :
        /\ height' = h
        /\ menu' = draw_menu([menu EXCEPT
                                 !.current_view = NonSearchView(menu),
                                 !.multiselect_mode = FALSE,
                                 !.selected_items = {},
                                 !.multiselect_items = <<>>,
                                 !.selected = 0,
                                 !.offset = 0], h)
    /\ pc' = "getch"
    /\ UNCHANGED <<catalogVars, key, success>>

\* KeyboardInterrupt while input() waits: it leaves run_installer or
\* run_batch_installers and is caught by run(), which breaks
AckInterrupted ==
    /\ pc \in {"ack_single", "ack_batch"}
    /\ pc' = "done"
    /\ UNCHANGED <<catalogVars, menu, key, height, execVars>>

SpaceKey ==
    /\ pc = "getch"
    /\ \E k \in Keys :
        /\ Dispatch(k) = "space"
        /\ Turn(k, IF menu.current_view = "multiselect"
                   THEN toggle_selection(menu, menu.selected)
                   ELSE menu)

SelectAllKey ==
    /\ pc = "getch"
    /\ \E k \in Keys :
        /\ Dispatch(k) = "select_all"
        /\ Turn(k, IF menu.current_view = "multiselect"
                   THEN select_all_items(menu)
                   ELSE menu)

MultiselectKey ==
    /\ pc = "getch"
    /\ \E k \in Keys :
        /\ Dispatch(k) = "multiselect"
        /\ Turn(k, IF MultiselectAllowed(menu)
                   THEN enter_multiselect_mode(menu)
                   ELSE menu)

BackKey ==
    /\ pc = "getch"
    /\ \E k \in Keys :
        /\ Dispatch(k) = "back"
        /\ Turn(k, [navigate_back(menu) EXCEPT !.selected = 0, !.offset = 0])

SearchKey ==
    /\ pc = "getch"
    /\ \E k \in Keys :
        /\ Dispatch(k) = "search"
        /\ Turn(k, filter_items([menu EXCEPT !.search_term = <<>>]))

BackspaceKey ==
    /\ pc = "getch"
    /\ \E k \in Keys :
        /\ Dispatch(k) = "backspace"
        /\ Turn(k, IF menu.search_term # <<>>
                   THEN filter_items([menu EXCEPT !.search_term =
                            SubSeq(@, 1, Len(@) - 1)])
                   ELSE menu)

EscapeKey ==
    /\ pc = "getch"
    /\ \E k \in Keys :
        /\ Dispatch(k) = "escape"
        /\ Turn(k, IF menu.current_view = "search"
                   THEN [menu EXCEPT !.search_term = <<>>,
                                     !.current_view = NonSearchView(menu),
                                     !.filtered_items = <<>>]
                   ELSE [navigate_back(menu) EXCEPT !.selected = 0,
                                                    !.offset = 0])

PrintableKey ==
    /\ pc = "getch"
    /\ Len(menu.search_term) < MaxTerm
    /\ \E k \in Keys :
        /\ Dispatch(k) = "printable"
        /\ Turn(k, filter_items([menu EXCEPT !.search_term = Append(@, k)]))

\* a key no branch handles
OtherKey ==
    /\ pc = "getch"
    /\ \E k \in Keys :
        /\ Dispatch(k) = "none"
        /\ Turn(k, menu)

\* KeyboardInterrupt while getch() waits: run() breaks
InterruptGetch ==
    /\ pc = "getch"
    /\ pc' = "done"
    /\ UNCHANGED <<catalogVars, menu, key, height, execVars>>

Next ==
    \/ QuitKey
    \/ DownKey
    \/ UpKey
    \/ EnterCategory
    \/ EnterNothing
    \/ EnterInstaller
    \/ RunSingle
    \/ AckSingle
    \/ EnterBatch
    \/ RunBatchItem
    \/ AckBatch
    \/ AckInterrupted
    \/ SpaceKey
    \/ SelectAllKey
    \/ MultiselectKey
    \/ BackKey
    \/ SearchKey
    \/ BackspaceKey
    \/ EscapeKey
    \/ PrintableKey
    \/ OtherKey
    \/ InterruptGetch

Spec == Init /\ [][Next]_vars

TypeOK ==
    /\ menu.current_view \in {"main", "category", "search", "multiselect"}
    /\ pc \in {"getch", "single", "ack_single", "batch", "ack_batch", "done"}
    /\ menu.selected >= 0
    /\ menu.offset >= 0

----------------------------------------------------------------------------
(* Properties *)

view == menu.current_view
items == get_current_items(menu)
PathsOf(seq) == [n \in 1..Len(seq) |-> seq[n].path]
NamesOf(seq) == [n \in 1..Len(seq) |-> seq[n].name]

\* a step of the key loop: a key was read and handled, and the menu redrawn
KeyTurn == pc = "getch" /\ pc' = "getch"

\* s is t with some elements left out, in t's order
RECURSIVE IsSubseq(_, _)
IsSubseq(s, t) ==
    IF s = <<>> THEN TRUE
    ELSE IF t = <<>> THEN FALSE
    ELSE IF s[1] = t[1] THEN IsSubseq(Tail(s), Tail(t))
    ELSE IsSubseq(s, Tail(t))

\* C1: after each redraw the cursor is within the list the view shows:
\* 0 <= selected <= max(0, len(items) - 1).
C1_CursorInRange ==
    pc = "getch" =>
        /\ 0 <= menu.selected
        /\ menu.selected <= Max(0, Len(items) - 1)

\* C2 as stated: after each redraw the viewport follows the cursor, for every
\* number of visible rows: offset <= selected <= offset + visibleRows - 1.
C2_ViewportFollowsCursor ==
    pc = "getch" =>
        /\ menu.offset <= menu.selected
        /\ menu.selected <= menu.offset + MaxVisible(view, height) - 1

\* C2 as amended: after each redraw on a terminal that leaves at least one
\* row for items, offset <= selected <= offset + visibleRows - 1.
C2_ViewportFollowsCursorWhenRows ==
    (pc = "getch" /\ MaxVisible(view, height) >= 1) =>
        /\ menu.offset <= menu.selected
        /\ menu.selected <= menu.offset + MaxVisible(view, height) - 1

\* the viewport has scrolled down to keep the cursor on its only row
C2_Witness ==
    /\ pc = "getch"
    /\ MaxVisible(view, height) = 1
    /\ menu.selected = 1
    /\ menu.offset = 1

\* C3: on entering multi-select from Search or Category the candidates are
\* the list that was visible: the filter results, or the category's entries.
C3_SnapshotIsVisibleList ==
    [][(/\ KeyTurn
        /\ Dispatch(key') = "multiselect"
        /\ view \in {"search", "category"}
        /\ menu'.current_view = "multiselect")
       => PathsOf(menu'.multiselect_items) = PathsOf(items)]_vars

\* C4: outside the MultiSelect view there is no SelectionSet: no selected
\* index and no candidate.
C4_SelectionSetOnlyInMultiSelect ==
    view # "multiselect" =>
        /\ menu.selected_items = {}
        /\ menu.multiselect_items = <<>>

\* C5: every selected index is the index of a candidate (so a toggle of an
\* index out of the range has had no effect).
C5_SelectedAreCandidates ==
    menu.selected_items \subseteq 0..(Len(menu.multiselect_items) - 1)

\* C6: while the view stays MultiSelect the candidates do not change.
C6_SnapshotFrozen ==
    [][(view = "multiselect" /\ menu'.current_view = "multiselect")
       => menu'.multiselect_items = menu.multiselect_items]_vars

\* Space has toggled a candidate in the MultiSelect view
C6_Witness ==
    /\ pc = "getch"
    /\ view = "multiselect"
    /\ Dispatch(key) = "space"
    /\ menu.selected_items # {}
    /\ Len(menu.multiselect_items) = 2

\* C7: '/' in Main or Category moves the view to Search with an empty term.
C7_StartSearchEntersSearch ==
    [][(/\ KeyTurn
        /\ Dispatch(key') = "search"
        /\ view \in {"main", "category"})
       => (/\ menu'.current_view = "search"
           /\ menu'.search_term = <<>>)]_vars

C9_SearchStaysInCategory ==
    (view = "search" /\ menu.current_category # None) =>
        IsSubseq(PathsOf(menu.filtered_items),
                 PathsOf(CategoriesGet(menu.current_category)))

\* C10: with Dev (a, b) and Net (c): in the Category view of Dev, typing
\* "a" shows exactly [a] in Search, and clearing the search shows [a, b] in
\* the Category view of Dev.
C10_DevScenario ==
    [][(/\ KeyTurn
        /\ installers = discover_installers(DirDevNet)
        /\ menu.current_category = str_Dev)
       => (/\ (view = "category" /\ menu.search_term = <<>> /\ key' = ord_a)
                => (/\ menu'.current_view = "search"
                    /\ NamesOf(menu'.filtered_items) = <<str_a>>)
           /\ (view = "search" /\ Dispatch(key') \in {"escape", "back"})
                => (/\ menu'.current_view = "category"
                    /\ menu'.current_category = str_Dev
                    /\ NamesOf(get_current_items(menu')) = <<str_a, str_b>>))
      ]_vars

\* a step in which getch() returned a key that was handled (not an interrupt)
KeyStep == pc = "getch" /\ pc' # "done"

\* C11: 'm' moves the view to MultiSelect when pressed in Category, in
\* Search, or in Main with an empty term; pressed in Main with a non-empty
\* term or in MultiSelect it leaves view, SelectionSet and cursor unchanged.
C11_MultiSelectEntryGate ==
    [][(KeyTurn /\ Dispatch(key') = "multiselect")
       => IF \/ view \in {"category", "search"}
             \/ (view = "main" /\ menu.search_term = <<>>)
          THEN menu'.current_view = "multiselect"
          ELSE /\ menu'.current_view = view
               /\ menu'.selected_items = menu.selected_items
               /\ menu'.multiselect_items = menu.multiselect_items
               /\ menu'.selected = menu.selected]_vars

\* 'm' was pressed in Main while a search term was active, and was refused
C11_Witness ==
    /\ pc = "getch"
    /\ Dispatch(key) = "multiselect"
    /\ view = "main"
    /\ menu.search_term # <<>>

\* the paths of the candidates whose index is selected
SelectedCandidatePaths ==
    {menu.multiselect_items[n].path :
        n \in {m \in 1..Len(menu.multiselect_items) :
                  (m - 1) \in menu.selected_items}}

\* C12: Enter in MultiSelect with a non-empty selection launches one batch of
\* exactly the selected candidates' paths, after which the view is Category
\* or Main, the SelectionSet is discarded and cursor and offset are 0; with
\* an empty selection it launches nothing and changes no state.
C12_EnterRunsSelection ==
    [][/\ (KeyStep /\ view = "multiselect" /\ Dispatch(key') = "enter")
          => IF menu.selected_items # {}
             THEN /\ pc' = "batch"
                  /\ Len(paths') = Cardinality(menu.selected_items)
                  /\ {paths'[n] : n \in 1..Len(paths')}
                        = SelectedCandidatePaths
             ELSE /\ pc' = "getch"
                  /\ surface' = surface
                  /\ menu'.current_view = view
                  /\ menu'.selected_items = menu.selected_items
                  /\ menu'.multiselect_items = menu.multiselect_items
                  /\ menu'.selected = menu.selected
                  /\ menu'.search_term = menu.search_term
                  /\ menu'.current_category = menu.current_category
       /\ (pc = "ack_batch" /\ pc' = "getch")
          => /\ menu'.current_view
                  = (IF menu.current_category = None
                     THEN "main" ELSE "category")
             /\ menu'.selected_items = {}
             /\ menu'.multiselect_items = <<>>
             /\ menu'.selected = 0
             /\ menu'.offset = 0]_vars

\* how many scripts of the running launch ended the way o
CountOutcome(o) ==
    Cardinality({n \in 1..Len(results) : results[n].outcome = o})

\* C13: a batch launches its paths one at a time in order, and its counts
\* are: succeeded = scripts that exited zero, failed = scripts that exited
\* non-zero, total = paths given; with no interruption succeeded + failed =
\* total.
C13_BatchSummary ==
    pc \in {"batch", "ack_batch"} =>
        /\ Len(results) = i
        /\ Len(results) <= Len(paths)
        /\ \A n \in 1..Len(results) : results[n].path = paths[n]
        /\ success_count = CountOutcome("ok")
        /\ failed_count = CountOutcome("fail")
        /\ (pc = "ack_batch" /\ CountOutcome("interrupt") = 0)
              => success_count + failed_count = Len(paths)

\* the summary of a batch of two: one exited zero, one non-zero
C13_Witness ==
    /\ pc = "ack_batch"
    /\ Len(paths) = 2
    /\ success_count = 1
    /\ failed_count = 1

\* C14: an interrupted batch item is the last one launched: the loop has
\* ended, nothing after it is launched, it is not launched again, and the
\* counts are those of the items completed before it.
C14_InterruptAbortsQueue ==
    pc \in {"batch", "ack_batch"} =>
        \A n \in 1..Len(results) :
            results[n].outcome = "interrupt" =>
                /\ n = Len(results)
                /\ pc = "ack_batch"
                /\ success_count + failed_count = n - 1
                /\ success_count = CountOutcome("ok")
                /\ failed_count = CountOutcome("fail")

\* the second of three items was interrupted after the first exited zero
C14_Witness ==
    /\ pc = "ack_batch"
    /\ Len(paths) = 3
    /\ Len(results) = 2
    /\ results[2].outcome = "interrupt"
    /\ success_count = 1
    /\ failed_count = 0

\* C15: however a script launched by run_installer ends (exit 0, non-zero
\* exit, interruption), the session goes on to the acknowledgement, a
\* non-zero exit or interruption is reported as non-success, and the view,
\* category, search term and cursor are as before the launch, also once
\* control is back in the key loop.
C15_ScriptFailureKeepsSession ==
    [][/\ pc = "single"
          => /\ pc' = "ack_single"
             /\ Len(results') = 1
             /\ success' = (results'[1].outcome = "ok")
       /\ pc \in {"single", "ack_single"}
          => /\ menu'.current_view = view
             /\ menu'.current_category = menu.current_category
             /\ menu'.search_term = menu.search_term
             /\ menu'.selected = menu.selected]_vars

\* an interrupted script launched from Search, reported as not successful
C15_Witness ==
    /\ pc = "ack_single"
    /\ Len(results) = 1
    /\ results[1].outcome = "interrupt"
    /\ success = FALSE
    /\ view = "search"

\* C16: scripts run only while the curses surface is ended; the surface is
\* up again whenever the loop draws or reads a key; the acknowledgement comes
\* after the script of a single launch, and after the last (or interrupted)
\* item of a batch, and leads back to the loop.
C16_SurfaceSuspendedWhileRunning ==
    /\ [](/\ pc \in {"single", "batch", "ack_single", "ack_batch"}
              => surface = "ended"
          /\ pc = "getch" => surface = "curses"
          /\ pc = "ack_single" => Len(results) = 1
          /\ pc = "ack_batch"
              => /\ Len(results) >= 1
                 /\ \/ Len(results) = Len(paths)
                    \/ results[Len(results)].outcome = "interrupt")
    /\ [][/\ (results' # results /\ results' # <<>>)
             => (surface = "ended" /\ surface' = "ended")
          /\ pc = "batch" => pc' \in {"batch", "ack_batch"}
          /\ pc \in {"ack_single", "ack_batch"} => pc' \in {"getch", "done"}
         ]_vars

\* between two items of a batch: the surface is ended, nothing acknowledged
C16_Witness ==
    /\ pc = "batch"
    /\ surface = "ended"
    /\ Len(paths) >= 2
    /\ Len(results) = 1

\* C17: 'q' can be pressed whenever the loop reads a key, it is never handled
\* as anything but quit, and once the session has ended no step follows (no
\* key is processed, no script launched).
C17_QuitAlwaysEnds ==
    /\ [](pc = "getch" => ENABLED QuitKey)
    /\ [][/\ KeyTurn => key' \notin {ord_q, ord_Q}
          /\ pc # "done"]_vars

\* quit pressed in MultiSelect with a selection and a search term
C17_Witness ==
    /\ pc = "done"
    /\ key = ord_q
    /\ view = "multiselect"
    /\ menu.selected_items # {}
    /\ menu.search_term # <<>>

\* C18: Back in Main changes nothing of the navigation context and does not
\* end the session.
C18_BackInMainNoOp ==
    [][(/\ pc = "getch"
        /\ view = "main"
        /\ key' # key
        /\ Dispatch(key') = "back")
       => (/\ pc' = "getch"
           /\ menu'.current_view = view
           /\ menu'.current_category = menu.current_category
           /\ menu'.selected = menu.selected
           /\ menu'.offset = menu.offset
           /\ menu'.search_term = menu.search_term)]_vars

\* C19: in Main no category is set; in Category the category is the name of
\* an existing category; in Search and MultiSelect it is unset or the name
\* of an existing category.
C19_ViewCategoryConsistent ==
    /\ view = "main" => menu.current_category = None
    /\ view = "category"
          => (menu.current_category # None
              /\ InCategories(menu.current_category))
    /\ view \in {"search", "multiselect"}
          => (menu.current_category = None
              \/ InCategories(menu.current_category))

\* a Search inside the category Dev, which is kept as the return target
C19_Witness ==
    /\ pc = "getch"
    /\ view = "search"
    /\ menu.current_category = str_Dev

\* C20: in Main and in Category the search term is empty.
C20_TermOnlyWhileSearching ==
    view \in {"main", "category"} => menu.search_term = <<>>

\* the entries of scope that contain term, ignoring case, in their name or
\* description, in scope's order
SubstringFilter(term, scope) ==
    SelectSeq(scope, LAMBDA e :
        \/ Contains(Lower(e.name), Lower(term))
        \/ Contains(Lower(e.description), Lower(term)))

\* C21: in Search the result list is the filter of the current term over the
\* current scope: the open category's entries if a category is set, all
\* entries otherwise.
C21_ResultsNeverStale ==
    view = "search" =>
        PathsOf(menu.filtered_items)
            = PathsOf(SubstringFilter(menu.search_term,
                        IF menu.current_category # None
                        THEN CategoriesGet(menu.current_category)
                        ELSE installers))

\* the state is the catalog root with nothing selected
AtRoot(self) ==
    /\ self.current_view = "main"
    /\ self.current_category = None
    /\ self.selected = 0
    /\ self.offset = 0
    /\ self.selected_items = {}
    /\ self.multiselect_items = <<>>

\* C22: a Back handled right after a Back leaves the session at the catalog
\* root (Main, no category, cursor and offset 0, no SelectionSet), and a Back
\* neither ends the session nor launches a script.
C22_BackConvergesToRoot ==
    [][/\ (KeyTurn /\ Dispatch(key) = "back" /\ Dispatch(key') = "back")
          => AtRoot(menu')
       /\ (pc = "getch" /\ key' # key /\ Dispatch(key') = "back")
          => (pc' = "getch" /\ surface' = surface /\ results' = results)
      ]_vars

====
